---- MODULE Spec2Model ----
(***************************************************************************)
(* Model of the background-removal pipeline of the Batch Icon Processor    *)
(* (src/src/utils/backgroundRemoval.ts) and of the batch driver that calls *)
(* it file by file (BatchProcessor, src/unnamed/part_002), with the alpha  *)
(* blur of the edge laboratory (src/src/components/EdgeLab.tsx).           *)
(*                                                                         *)
(* An ImageData is a record [width, height, data]; data is the sequence of *)
(* pixels in row-major order, pixel k (1-based) standing for the four      *)
(* bytes data[4(k-1)] .. data[4(k-1)+3] of the Uint8ClampedArray.          *)
(*                                                                         *)
(* The code computes in IEEE doubles.  The model computes the same         *)
(* expressions in exact rational arithmetic (numerator / denominator).     *)
(* The two agree except where the exact value handed to a rounding step is *)
(* exactly half-way between two integers: there the double can land on     *)
(* either side, so the model takes the rounding direction of an exact tie  *)
(* as a nondeterministic choice.                                           *)
(***************************************************************************)
EXTENDS Integers, Sequences, FiniteSets, TLC

VARIABLES imageData, bgData, srcImage, before, lastOp, prev, options, pc, steps

\* the batch driver (BatchProcessor): the file list, the running
\* startBatchProcessing call and the addFiles call in flight
VARIABLES files, isProcessing, closure, pos, phase, log, filesToAdd, calls

batchVars == <<files, isProcessing, closure, pos, phase, log, filesToAdd, calls>>

vars == <<imageData, bgData, srcImage, before, lastOp, prev, options, pc, steps,
          files, isProcessing, closure, pos, phase, log, filesToAdd, calls>>

\* the component as mounted: no files, no run, no addFiles call
IdleBatch ==
  /\ files = << >>
  /\ isProcessing = FALSE
  /\ closure = << >>
  /\ pos = 0
  /\ phase = "idle"
  /\ log = << >>
  /\ filesToAdd = << >>
  /\ calls = [addFiles |-> 0, startBatchProcessing |-> 0]

(***************************************************************************)
(* Bounds of the model                                                     *)
(***************************************************************************)
MaxDim == 2          \* matting inputs are w x h with w, h in 1..MaxDim

(***************************************************************************)
(* Program constants                                                       *)
(***************************************************************************)
MinThreshold == 1
MaxThreshold == 100
Thresholds == MinThreshold..MaxThreshold

(***************************************************************************)
(* Arithmetic helpers                                                      *)
(***************************************************************************)
Abs(x) == IF x < 0 THEN -x ELSE x

Max2(x, y) == IF x > y THEN x ELSE y

Min2(x, y) == IF x < y THEN x ELSE y

\* Math.max(a, b, c)
Max3(x, y, z) == Max2(x, Max2(y, z))

\* num/den (num >= 0, den > 0) is exactly half-way between two integers
IsTie(num, den) == 2 * (num % den) = den

\* Math.round(num/den) for num >= 0, den > 0: the nearest integer; an exact
\* tie goes up when tieUp, down otherwise (see the header).
MathRound(num, den, tieUp) ==
  LET q == num \div den
      r == num % den
  IN IF 2 * r > den THEN q + 1
     ELSE IF 2 * r = den THEN (IF tieUp THEN q + 1 ELSE q)
     ELSE q

\* Storing num/den (den > 0) into a Uint8ClampedArray: clamp to [0,255],
\* round to nearest, ties to even.
ToUint8Clamped(num, den) ==
  IF num <= 0 THEN 0
  ELSE IF num >= 255 * den THEN 255
  ELSE LET q == num \div den
           r == num % den
       IN IF 2 * r > den THEN q + 1
          ELSE IF 2 * r < den THEN q
          ELSE IF q % 2 = 0 THEN q ELSE q + 1

(***************************************************************************)
(* Pixels and images                                                       *)
(***************************************************************************)
Px(r, g, b, a) == [r |-> r, g |-> g, b |-> b, a |-> a]

NoImage == [width |-> 0, height |-> 0, data |-> << >>]

NumPixels(img) == Len(img.data)

Alphas(img) == [k \in 1..NumPixels(img) |-> img.data[k].a]

\* colour channels of pixel k
Rgb(img, k) == <<img.data[k].r, img.data[k].g, img.data[k].b>>

(***************************************************************************)
(* subtractBackground, one pixel: lines 144-178                            *)
(***************************************************************************)
\* faulty variant: the opacity of the reference does not scale the threshold
EffNumIgnoringAlpha(threshold, bgAlpha) == threshold * 255 * 255

\* effectiveThreshold = (threshold * 2.55) * (bgAlpha / 255) as a fraction
EffNum(threshold, bgAlpha) == threshold * 255 * bgAlpha

EffDen == 100 * 255

\* faulty variant: the alpha bytes are compared as a fourth channel
MaxDiffWithAlpha(px, bgPx) ==
  Max2(Max3(Abs(px.r - bgPx.r), Abs(px.g - bgPx.g), Abs(px.b - bgPx.b)),
       Abs(px.a - bgPx.a))

MaxDiff(px, bgPx) ==
  Max3(Abs(px.r - bgPx.r), Abs(px.g - bgPx.g), Abs(px.b - bgPx.b))

\* faulty variant: the fade ramp runs the wrong way, fadeout = (1.5 eff - maxDiff) / (0.5 eff)
FadedAlphaNumInverted(px, bgPx, threshold) ==
  px.a * (3 * EffNum(threshold, bgPx.a) - 2 * MaxDiff(px, bgPx) * EffDen)

\* data[i+3] * fadeout as a fraction over EffNum, where
\* fadeout = (maxDiff - eff) / (eff * 0.5)
FadedAlphaNum(px, bgPx, threshold) ==
  px.a * 2 * (MaxDiff(px, bgPx) * EffDen - EffNum(threshold, bgPx.a))

InFadeBand(px, bgPx, threshold) ==
  /\ bgPx.a > 0
  /\ ~ (MaxDiff(px, bgPx) * EffDen < EffNum(threshold, bgPx.a))
  /\ 2 * MaxDiff(px, bgPx) * EffDen < 3 * EffNum(threshold, bgPx.a)

\* faulty variant: the reference alpha is neither tested nor used
subtractPixelAnyAlpha(px, bgPx, threshold, tieUp) ==
  IF MaxDiff(px, bgPx) * 100 < threshold * 255
  THEN [px EXCEPT !.a = 0]
  ELSE IF 2 * MaxDiff(px, bgPx) * 100 < 3 * threshold * 255
       THEN [px EXCEPT !.a = MathRound(px.a * 2 * (MaxDiff(px, bgPx) * 100 - threshold * 255),
                                       threshold * 255, tieUp)]
       ELSE px

subtractPixel(px, bgPx, threshold, tieUp) ==
  IF bgPx.a > 0
  THEN IF MaxDiff(px, bgPx) * EffDen < EffNum(threshold, bgPx.a)
       THEN [px EXCEPT !.a = 0]
       ELSE IF 2 * MaxDiff(px, bgPx) * EffDen < 3 * EffNum(threshold, bgPx.a)
            THEN [px EXCEPT !.a = MathRound(FadedAlphaNum(px, bgPx, threshold),
                                            EffNum(threshold, bgPx.a), tieUp)]
            ELSE px
  ELSE px

\* The pixels whose faded alpha is an exact tie
TiePixels(img, bg, threshold) ==
  {k \in 1..NumPixels(img) :
     /\ k <= NumPixels(bg)
     /\ InFadeBand(img.data[k], bg.data[k], threshold)
     /\ IsTie(FadedAlphaNum(img.data[k], bg.data[k], threshold),
              EffNum(threshold, bg.data[k].a))}

\* subtractBackground: the loop runs over the image's bytes and reads the
\* reference at the same byte offset; past the end of the reference the read
\* is undefined and (undefined > 0) is false.  ups: the tie pixels rounded up.
subtractBackground(img, bg, threshold, ups) ==
  [img EXCEPT !.data =
     [k \in 1..NumPixels(img) |->
        IF k <= NumPixels(bg)
        THEN subtractPixel(img.data[k], bg.data[k], threshold, k \in ups)
        ELSE img.data[k]]]

(***************************************************************************)
(* removeByColor: lines 185-210                                            *)
(***************************************************************************)
\* rDiff + gDiff + bDiff; totalDiff is this sum over 3
SumDiff(px, targetColor) ==
  Abs(px.r - targetColor.r) + Abs(px.g - targetColor.g) + Abs(px.b - targetColor.b)

\* faulty variant: the scaled alpha is stored without Math.min(data[i + 3], alpha)
removeByColorPixelNoMin(px, targetColor, threshold) ==
  IF SumDiff(px, targetColor) < 3 * threshold
  THEN [px EXCEPT !.a = 0]
  ELSE [px EXCEPT !.a = ToUint8Clamped(Min2(255 * 3 * threshold,
                                            SumDiff(px, targetColor) * 255),
                                       3 * threshold)]

\* faulty variant: the threshold is scaled by 2.55 as in the reference mode
removeByColorPixelScaled(px, targetColor, threshold) ==
  IF 100 * SumDiff(px, targetColor) < 3 * threshold * 255
  THEN [px EXCEPT !.a = 0]
  ELSE px

\* faulty variant: the scale starts at 0 where totalDiff = threshold
removeByColorPixelRamp(px, targetColor, threshold) ==
  LET sum == SumDiff(px, targetColor)
      den == 3 * threshold
      alphaNum == Min2(255 * den, (sum - den) * 255)
  IN IF sum < 3 * threshold
     THEN [px EXCEPT !.a = 0]
     ELSE [px EXCEPT !.a = ToUint8Clamped(Min2(px.a * den, alphaNum), den)]

removeByColorPixel(px, targetColor, threshold) ==
  LET sum == SumDiff(px, targetColor)
      den == 3 * threshold
      \* alpha = Math.min(255, (totalDiff / threshold) * 255) = alphaNum / den
      alphaNum == Min2(255 * den, sum * 255)
  IN IF sum < 3 * threshold
     THEN [px EXCEPT !.a = 0]
     ELSE [px EXCEPT !.a = ToUint8Clamped(Min2(px.a * den, alphaNum), den)]

removeByColor(img, targetColor, threshold) ==
  [img EXCEPT !.data =
     [k \in 1..NumPixels(img) |-> removeByColorPixel(img.data[k], targetColor, threshold)]]

(***************************************************************************)
(* detectBackgroundColor: lines 215-247                                    *)
(***************************************************************************)
\* the four sampled pixels (1-based): the byte offsets of lines 225-230 over 4
CornerSamples(img) ==
  << 1,
     (img.width - 1) + 1,
     (img.height - 1) * img.width + 1,
     ((img.height - 1) * img.width + (img.width - 1)) + 1 >>

detectBackgroundColor(img) ==
  LET samples == CornerSamples(img)
      r == img.data[samples[1]].r + img.data[samples[2]].r
             + img.data[samples[3]].r + img.data[samples[4]].r
      g == img.data[samples[1]].g + img.data[samples[2]].g
             + img.data[samples[3]].g + img.data[samples[4]].g
      b == img.data[samples[1]].b + img.data[samples[2]].b
             + img.data[samples[3]].b + img.data[samples[4]].b
  IN [r |-> MathRound(r, Len(samples), TRUE),
      g |-> MathRound(g, Len(samples), TRUE),
      b |-> MathRound(b, Len(samples), TRUE)]

(***************************************************************************)
(* hexToRgb: lines 287-296.  A string is a sequence of one-character       *)
(* strings.                                                                *)
(***************************************************************************)
HexDigits ==
  [c \in {"0", "1", "2", "3", "4", "5", "6", "7", "8", "9",
          "a", "b", "c", "d", "e", "f", "A", "B", "C", "D", "E", "F"} |->
     CASE c = "0" -> 0 [] c = "1" -> 1 [] c = "2" -> 2 [] c = "3" -> 3
       [] c = "4" -> 4 [] c = "5" -> 5 [] c = "6" -> 6 [] c = "7" -> 7
       [] c = "8" -> 8 [] c = "9" -> 9
       [] c \in {"a", "A"} -> 10 [] c \in {"b", "B"} -> 11
       [] c \in {"c", "C"} -> 12 [] c \in {"d", "D"} -> 13
       [] c \in {"e", "E"} -> 14 [] c \in {"f", "F"} -> 15]

\* parseInt(two hex digits, 16)
ParseHexPair(hi, lo) == 16 * HexDigits[hi] + HexDigits[lo]

\* /^#?([a-f\d]{2})([a-f\d]{2})([a-f\d]{2})$/i ; no match gives black
hexToRgb(hex) ==
  LET body == IF Len(hex) > 0 /\ hex[1] = "#" THEN Tail(hex) ELSE hex
  IN IF Len(body) = 6 /\ \A i \in 1..6 : body[i] \in DOMAIN HexDigits
     THEN [r |-> ParseHexPair(body[1], body[2]),
           g |-> ParseHexPair(body[3], body[4]),
           b |-> ParseHexPair(body[5], body[6])]
     ELSE [r |-> 0, g |-> 0, b |-> 0]

(***************************************************************************)
(* Neighbourhoods.  x, y are 0-based as in the code.                       *)
(***************************************************************************)
Idx(x, y, width) == y * width + x + 1

\* position (x, y) of pixel k in an image of the given width
XOf(k, width) == (k - 1) % width

YOf(k, width) == (k - 1) \div width

\* the pixels visited by "for y = 1 .. height-2, for x = 1 .. width-2"
InnerPixels(img) ==
  {Idx(x, y, img.width) : x \in 1..(img.width - 2), y \in 1..(img.height - 2)}

Offsets == {-1, 0, 1}

\* the eight neighbours of an inner pixel k (no bounds test, as in the code)
Neighbours8(k, width) ==
  {k + dy * width + dx : dx \in Offsets, dy \in Offsets} \ {k}

\* the in-bounds pixels at Chebyshev distance <= d of pixel k, k included
Within(img, k, d) ==
  LET x == (k - 1) % img.width
      y == (k - 1) \div img.width
  IN {Idx(nx, ny, img.width) :
        nx \in Max2(0, x - d)..Min2(img.width - 1, x + d),
        ny \in Max2(0, y - d)..Min2(img.height - 1, y + d)}

(***************************************************************************)
(* smoothEdges: lines 252-282                                              *)
(***************************************************************************)
\* alphaSum over the 3 x 3 window of the copy originalData
AlphaSum9(data, k, width) ==
    data[k - width - 1].a + data[k - width].a + data[k - width + 1].a
  + data[k - 1].a         + data[k].a         + data[k + 1].a
  + data[k + width - 1].a + data[k + width].a + data[k + width + 1].a

\* faulty variant: the test originalData[idx + 3] > 0 is missing
smoothEdgesAnyAlpha(img) ==
  LET inner == InnerPixels(img)
  IN [img EXCEPT !.data =
        [k \in 1..NumPixels(img) |->
           IF k \in inner /\ img.data[k].a < 255
           THEN [img.data[k] EXCEPT
                   !.a = MathRound(AlphaSum9(img.data, k, img.width), 9, TRUE)]
           ELSE img.data[k]]]

smoothEdges(img) ==
  LET inner == InnerPixels(img)
  IN [img EXCEPT !.data =
        [k \in 1..NumPixels(img) |->
           IF k \in inner /\ img.data[k].a > 0 /\ img.data[k].a < 255
           THEN [img.data[k] EXCEPT
                   !.a = MathRound(AlphaSum9(img.data, k, img.width), 9, TRUE)]
           ELSE img.data[k]]]

(***************************************************************************)
(* The outer edge: lines 308-338 and again 487-516                         *)
(***************************************************************************)
isOuterEdge(img) ==
  {k \in InnerPixels(img) :
     /\ img.data[k].a > 0
     /\ \E n \in Neighbours8(k, img.width) : img.data[n].a = 0}

(***************************************************************************)
(* removeLightEdgeArtifacts: lines 302-368                                 *)
(***************************************************************************)
\* brightness = (r + g + b) / 3 is kept as the sum r + g + b
Sum3(px) == px.r + px.g + px.b

removeLightEdgePixel(px) ==
  IF px.a > 0 /\ px.a < 200 /\ Sum3(px) > 3 * 180
  THEN \* Math.max(0, alpha - (brightness - 128)) stored into the clamped array
       [px EXCEPT !.a = ToUint8Clamped(Max2(0, 3 * px.a - (Sum3(px) - 3 * 128)), 3)]
  ELSE px

\* faulty variant: the second loop does not consult isOuterEdge
removeLightEdgeArtifactsEverywhere(img) ==
  [img EXCEPT !.data = [k \in 1..NumPixels(img) |-> removeLightEdgePixel(img.data[k])]]

removeLightEdgeArtifacts(img) ==
  LET edge == isOuterEdge(img)
  IN [img EXCEPT !.data =
        [k \in 1..NumPixels(img) |->
           IF k \in edge THEN removeLightEdgePixel(img.data[k]) ELSE img.data[k]]]

(***************************************************************************)
(* erodeEdges: lines 373-422                                               *)
(***************************************************************************)
\* faulty variant: the pass visits every pixel, testing its in-bounds
\* neighbours
erodePassEverywhere(tempAlpha, img) ==
  [k \in DOMAIN tempAlpha |->
     IF /\ tempAlpha[k] > 0
        /\ \E n \in Within(img, k, 1) : tempAlpha[n] = 0
     THEN 0
     ELSE tempAlpha[k]]

\* one pass: tempAlpha is the copy of alphaMap the pass reads
erodePass(tempAlpha, img) ==
  LET inner == InnerPixels(img)
  IN [k \in DOMAIN tempAlpha |->
        IF /\ k \in inner
           /\ tempAlpha[k] > 0
           /\ \E n \in Neighbours8(k, img.width) : tempAlpha[n] = 0
        THEN 0
        ELSE tempAlpha[k]]

\* faulty variant: the pass loop runs while pass <= pixels
RECURSIVE erodePassesInclusive(_, _, _, _)
erodePassesInclusive(alphaMap, img, pass, pixels) ==
  IF pass <= pixels
  THEN erodePassesInclusive(erodePass(alphaMap, img), img, pass + 1, pixels)
  ELSE alphaMap

RECURSIVE erodePasses(_, _, _, _)
erodePasses(alphaMap, img, pass, pixels) ==
  IF pass < pixels
  THEN erodePasses(erodePass(alphaMap, img), img, pass + 1, pixels)
  ELSE alphaMap

erodeEdges(img, pixels) ==
  LET alphaMap == erodePasses(Alphas(img), img, 0, pixels)
  IN [img EXCEPT !.data =
        [k \in 1..NumPixels(img) |-> [img.data[k] EXCEPT !.a = alphaMap[k]]]]

(***************************************************************************)
(* aggressiveEdgeCleanup: lines 427-470.  The scan mutates data in place,  *)
(* so pixel k is judged on the buffer as the pixels before k left it.      *)
(***************************************************************************)
\* faulty variant: every visible neighbour counts as opaque
opaqueCountVisible(data, k, img) ==
  Cardinality({n \in Within(img, k, 1) \ {k} : data[n].a > 0})

\* opaqueCount: the in-bounds neighbours with alpha > 200 in the current data
opaqueCount(data, k, img) ==
  Cardinality({n \in Within(img, k, 1) \ {k} : data[n].a > 200})

\* faulty variant: the whole pixel is cleared, not only its alpha byte
cleanupPixelClearing(data, k, img) ==
  IF /\ data[k].a > 0 /\ data[k].a < 128
     /\ opaqueCount(data, k, img) < 3
     /\ Sum3(data[k]) > 3 * 150
  THEN [data EXCEPT ![k] = Px(0, 0, 0, 0)]
  ELSE data

cleanupPixel(data, k, img) ==
  IF /\ data[k].a > 0 /\ data[k].a < 128
     /\ opaqueCount(data, k, img) < 3      \* !hasOpaque || opaqueCount < 3
     /\ Sum3(data[k]) > 3 * 150
  THEN [data EXCEPT ![k].a = 0]
  ELSE data

RECURSIVE cleanupScan(_, _, _)
cleanupScan(data, k, img) ==
  IF k > Len(data) THEN data
  ELSE cleanupScan(cleanupPixel(data, k, img), k + 1, img)

aggressiveEdgeCleanup(img) == [img EXCEPT !.data = cleanupScan(img.data, 1, img)]

(***************************************************************************)
(* removeLiquidGlassOutline: lines 477-576                                 *)
(***************************************************************************)
\* step 2: the pixels with an outer-edge pixel within outlineWidth
processZone(img, outlineWidth) ==
  LET edge == isOuterEdge(img)
  IN {k \in 1..NumPixels(img) : Within(img, k, outlineWidth) \cap edge # {}}

\* a - alphaReduction = a - ((brightness - T) / (255 - T)) * a as a fraction
\* over GlassDen
GlassNum(px, brightThreshold) == px.a * (3 * 255 - Sum3(px))

GlassDen(brightThreshold) == 3 * (255 - brightThreshold)

\* the first store of step 3 applies and its exact value is a tie
GlassTie(px, brightThreshold) ==
  /\ px.a # 0
  /\ Sum3(px) > 3 * brightThreshold
  /\ IsTie(GlassNum(px, brightThreshold), GlassDen(brightThreshold))

glassPixel(px, brightThreshold, tieUp) ==
  IF px.a = 0 THEN px
  ELSE IF px.a > 0 /\ px.a < 180 /\ Sum3(px) > 3 * (brightThreshold - 20)
       THEN \* the second store overwrites the first: Math.floor(a * 0.3)
            [px EXCEPT !.a = Max2(0, (px.a * 3) \div 10)]
       ELSE IF Sum3(px) > 3 * brightThreshold
            THEN [px EXCEPT !.a = Min2(255, MathRound(Max2(0, GlassNum(px, brightThreshold)),
                                                      GlassDen(brightThreshold), tieUp))]
            ELSE px

GlassTiePixels(img, outlineWidth, brightThreshold) ==
  {k \in processZone(img, outlineWidth) :
     /\ ~ (img.data[k].a < 180 /\ Sum3(img.data[k]) > 3 * (brightThreshold - 20))
     /\ GlassTie(img.data[k], brightThreshold)}

\* ups: the tie pixels whose stored alpha is rounded up
removeLiquidGlassOutline(img, outlineWidth, brightThreshold, ups) ==
  LET zone == processZone(img, outlineWidth)
  IN [img EXCEPT !.data =
        [k \in 1..NumPixels(img) |->
           IF k \in zone THEN glassPixel(img.data[k], brightThreshold, k \in ups)
                         ELSE img.data[k]]]

(***************************************************************************)
(* Operation records (what ran last, with its arguments)                   *)
(***************************************************************************)
NoColor == [r |-> 0, g |-> 0, b |-> 0]

Op(name, threshold, color, passes, outlineWidth, brightThreshold) ==
  [name |-> name, threshold |-> threshold, color |-> color, passes |-> passes,
   outlineWidth |-> outlineWidth, brightThreshold |-> brightThreshold]

LoadOp == Op("getImageData", 0, NoColor, 0, 0, 0)

NoPrev == [threshold |-> 0, image |-> NoImage]


(***************************************************************************)
(* Inputs of the matting specifications                                    *)
(***************************************************************************)
ImgPalette ==
  << Px(255, 0, 0, 255), Px(248, 3, 0, 1), Px(200, 30, 30, 100),
     Px(0, 0, 255, 255), Px(255, 0, 0, 0), Px(254, 1, 0, 201) >>

RefPalette ==
  << Px(255, 0, 0, 255), Px(255, 0, 0, 140), Px(255, 0, 0, 0),
     Px(255, 0, 0, 80), Px(0, 0, 250, 255) >>

KeyColors == { [r |-> 255, g |-> 0, b |-> 0], [r |-> 0, g |-> 0, b |-> 255],
               [r |-> 250, g |-> 2, b |-> 2] }

\* the w x h image whose pixel k is palette entry k + shift (cyclically)
PaletteImage(palette, w, h, shift) ==
  [width |-> w, height |-> h,
   data |-> [k \in 1..(w * h) |-> palette[((k - 1 + shift) % Len(palette)) + 1]]]

MatteImages ==
  {PaletteImage(ImgPalette, w, h, s) : w \in 1..MaxDim, h \in 1..MaxDim,
                                      s \in 0..(Len(ImgPalette) - 1)}

MatteReferences ==
  {PaletteImage(RefPalette, w, h, s) : w \in 1..MaxDim, h \in 1..MaxDim,
                                      s \in 0..(Len(RefPalette) - 1)}

(***************************************************************************)
(* removeBackground: lines 21-111.  options holds the values the           *)
(* destructuring of lines 26-36 yields.  A missing reference is NoImage; a *)
(* missing targetBackgroundColor is the empty string (both are falsy).     *)
(***************************************************************************)
Undefined == << >>

\* the fields of ProcessingOptions, in the order of lines 27-35
Options(t, smoothing, color, cleanup, erode, lightEdges, glass, width, brightness) ==
  [threshold |-> t, edgeSmoothing |-> smoothing,
   targetBackgroundColor |-> color, edgeCleanup |-> cleanup,
   erodePixels |-> erode, removeLightEdges |-> lightEdges,
   removeLiquidGlass |-> glass, glassOutlineWidth |-> width,
   glassBrightness |-> brightness]

\* the defaults of lines 27-35
DefaultOptions == Options(30, TRUE, Undefined, FALSE, 0, FALSE, FALSE, 2, 200)

\* faulty variant: an explicit colour takes precedence over the reference
mattingPathColorFirst(bg, opts) ==
  IF opts.targetBackgroundColor # Undefined THEN "color"
  ELSE IF bg # NoImage THEN "reference"
  ELSE "detect"

\* lines 52, 67, 71: which matting branch runs
mattingPath(bg, opts) ==
  IF bg # NoImage THEN "reference"
  ELSE IF opts.targetBackgroundColor # Undefined THEN "color"
  ELSE "detect"

\* faulty variant: the erosion block is entered for erodePixels >= 0
stepActiveErodeAlways(step, opts) ==
  CASE step = "smooth" -> opts.edgeSmoothing
    [] step = "lightEdges" -> opts.removeLightEdges
    [] step = "erode" -> opts.erodePixels >= 0
    [] step = "cleanup" -> opts.edgeCleanup
    [] step = "glass" -> opts.removeLiquidGlass

\* lines 78, 83, 88, 93, 98: the condition guarding each refinement step
stepActive(step, opts) ==
  CASE step = "smooth" -> opts.edgeSmoothing
    [] step = "lightEdges" -> opts.removeLightEdges
    [] step = "erode" -> opts.erodePixels > 0
    [] step = "cleanup" -> opts.edgeCleanup
    [] step = "glass" -> opts.removeLiquidGlass

\* faulty variant: the cleanup block is placed before the erosion block
nextPcCleanupFirst(at) ==
  CASE at = "load" -> "matte"
    [] at = "matte" -> "smooth"
    [] at = "smooth" -> "lightEdges"
    [] at = "lightEdges" -> "cleanup"
    [] at = "cleanup" -> "erode"
    [] at = "erode" -> "glass"
    [] at = "glass" -> "encode"
    [] at = "encode" -> "done"

\* the statement that follows each statement of removeBackground
nextPc(at) ==
  CASE at = "load" -> "matte"
    [] at = "matte" -> "smooth"
    [] at = "smooth" -> "lightEdges"
    [] at = "lightEdges" -> "erode"
    [] at = "erode" -> "cleanup"
    [] at = "cleanup" -> "glass"
    [] at = "glass" -> "encode"
    [] at = "encode" -> "done"

\* lines 39-49 (and 53-63 for the reference): both files decode
LoadImage ==
  /\ pc = "load"
  /\ imageData' = srcImage
  /\ before' = srcImage
  /\ lastOp' = LoadOp
  /\ pc' = nextPc(pc)
  /\ UNCHANGED batchVars
  /\ UNCHANGED <<bgData, srcImage, prev, options, steps>>

\* lines 116-123: img.onerror rejects, removeBackground rejects
LoadImageFails ==
  /\ pc = "load"
  /\ pc' = "rejected"
  /\ UNCHANGED batchVars
  /\ UNCHANGED <<imageData, bgData, srcImage, before, lastOp, prev, options, steps>>

\* lines 51-75
Matte ==
  /\ pc = "matte"
  /\ LET path == mattingPath(bgData, options)
         color == IF path = "color" THEN hexToRgb(options.targetBackgroundColor)
                  ELSE IF path = "detect" THEN detectBackgroundColor(imageData)
                  ELSE NoColor
         name == IF path = "reference" THEN "subtractBackground" ELSE "removeByColor"
     IN /\ IF path = "reference"
           THEN \E ups \in SUBSET TiePixels(imageData, bgData, options.threshold) :
                  imageData' = subtractBackground(imageData, bgData, options.threshold, ups)
           ELSE imageData' = removeByColor(imageData, color, options.threshold)
        /\ lastOp' = Op(name, options.threshold, color, 0, 0, 0)
        /\ steps' = Append(steps, Op(name, options.threshold, color, 0, 0, 0))
  /\ before' = imageData
  /\ prev' = [threshold |-> options.threshold, image |-> imageData']
  /\ pc' = nextPc(pc)
  /\ UNCHANGED batchVars
  /\ UNCHANGED <<bgData, srcImage, options>>

\* a refinement step whose condition is false
Skip(step) ==
  /\ pc = step
  /\ ~ stepActive(step, options)
  /\ pc' = nextPc(pc)
  /\ UNCHANGED batchVars
  /\ UNCHANGED <<imageData, bgData, srcImage, before, lastOp, prev, options, steps>>

\* a refinement step that runs: the buffer is mutated in place
Run(step, result, op) ==
  /\ pc = step
  /\ stepActive(step, options)
  /\ imageData' = result
  /\ before' = imageData
  /\ lastOp' = op
  /\ steps' = Append(steps, op)
  /\ pc' = nextPc(pc)
  /\ UNCHANGED batchVars
  /\ UNCHANGED <<bgData, srcImage, prev, options>>

\* lines 78-80
Smooth ==
  \/ Run("smooth", smoothEdges(imageData),
         Op("smoothEdges", 0, NoColor, 0, 0, 0))
  \/ Skip("smooth")

\* lines 83-85
LightEdges ==
  \/ Run("lightEdges", removeLightEdgeArtifacts(imageData),
         Op("removeLightEdgeArtifacts", 0, NoColor, 0, 0, 0))
  \/ Skip("lightEdges")

\* lines 88-90
Erode ==
  \/ Run("erode", erodeEdges(imageData, options.erodePixels),
         Op("erodeEdges", 0, NoColor, options.erodePixels, 0, 0))
  \/ Skip("erode")

\* lines 93-95
Cleanup ==
  \/ Run("cleanup", aggressiveEdgeCleanup(imageData),
         Op("aggressiveEdgeCleanup", 0, NoColor, 0, 0, 0))
  \/ Skip("cleanup")

\* lines 98-100
Glass ==
  \/ /\ pc = "glass"
     /\ \E ups \in SUBSET GlassTiePixels(imageData, options.glassOutlineWidth,
                                          options.glassBrightness) :
            Run("glass",
                removeLiquidGlassOutline(imageData, options.glassOutlineWidth,
                                         options.glassBrightness, ups),
                Op("removeLiquidGlassOutline", 0, NoColor, 0, options.glassOutlineWidth,
                   options.glassBrightness))
  \/ Skip("glass")

\* lines 102-107: toBlob delivers the PNG and the promise resolves
Encode ==
  /\ pc = "encode"
  /\ pc' = nextPc(pc)
  /\ UNCHANGED batchVars
  /\ UNCHANGED <<imageData, bgData, srcImage, before, lastOp, prev, options, steps>>

\* lines 106-108: toBlob delivers null; the throw is inside the callback, so
\* the promise returned by removeBackground is never settled
EncodeFails ==
  /\ pc = "encode"
  /\ pc' = "unsettled"
  /\ UNCHANGED batchVars
  /\ UNCHANGED <<imageData, bgData, srcImage, before, lastOp, prev, options, steps>>

(***************************************************************************)
(* Inputs of the pipeline                                                  *)
(***************************************************************************)
PipeDim == 4         \* pipeline images are PipeDim x PipeDim

MaxErodePixels == 2  \* erodePixels ranges over 0..MaxErodePixels

PipePalette ==
  << Px(255, 0, 0, 255), Px(250, 250, 250, 100), Px(0, 0, 255, 255),
     Px(255, 255, 255, 0), Px(240, 240, 240, 190), Px(160, 160, 160, 60),
     Px(170, 0, 0, 255), Px(26, 26, 26, 255) >>

\* the w x h image whose pixel k is palette entry (k - 1) * mult + shift
PatternImage(palette, w, h, mult, shift) ==
  [width |-> w, height |-> h,
   data |-> [k \in 1..(w * h) |->
               palette[(((k - 1) * mult + shift) % Len(palette)) + 1]]]

PipeImages ==
  {PatternImage(PipePalette, PipeDim, PipeDim, m, s) :
     m \in {1, 3}, s \in 0..(Len(PipePalette) - 1)}

RefRed == PatternImage(<< Px(255, 0, 0, 255) >>, PipeDim, PipeDim, 1, 0)

RefMixed == PatternImage(RefPalette, PipeDim, PipeDim, 1, 0)

\* the strings a colour input yields, with the RGB each one denotes
HexRed == << "#", "f", "f", "0", "0", "0", "0" >>

HexDark == << "1", "A", "1", "a", "1", "A" >>

Denoted(hex) == IF hex = HexRed THEN [r |-> 255, g |-> 0, b |-> 0]
                ELSE [r |-> 26, g |-> 26, b |-> 26]

\* (reference, targetBackgroundColor) as the caller passes them
PipeModes ==
  { <<RefRed, Undefined>>, <<RefRed, HexDark>>, <<RefMixed, Undefined>>,
    <<NoImage, HexRed>>, <<NoImage, HexDark>>, <<NoImage, Undefined>> }

PipeThresholds == {30, 60}

PipeGlass == { <<2, 200>>, <<1, 100>> }

PipeOptions(color) ==
  {Options(t, sm, color, cl, er, le, gl, glass[1], glass[2]) :
     t \in PipeThresholds, sm \in BOOLEAN, cl \in BOOLEAN,
     er \in 0..MaxErodePixels, le \in BOOLEAN, gl \in BOOLEAN, glass \in PipeGlass}

Init ==
  /\ srcImage \in PipeImages
  /\ \E mode \in PipeModes :
       /\ bgData = mode[1]
       /\ options \in PipeOptions(mode[2])
  /\ imageData = NoImage
  /\ before = NoImage
  /\ lastOp = LoadOp
  /\ prev = NoPrev
  /\ pc = "load"
  /\ steps = << >>
  /\ IdleBatch

Next ==
  \/ LoadImage
  \/ LoadImageFails
  \/ Matte
  \/ Smooth
  \/ LightEdges
  \/ Erode
  \/ Cleanup
  \/ Glass
  \/ Encode
  \/ EncodeFails

Spec == Init /\ [][Next]_vars

(***************************************************************************)
(* Matting applied to a freshly decoded image                              *)
(***************************************************************************)
InitMatte ==
  /\ srcImage \in MatteImages
  /\ bgData \in MatteReferences
  /\ imageData = srcImage
  /\ before = srcImage
  /\ lastOp = LoadOp
  /\ prev = NoPrev
  /\ options = DefaultOptions
  /\ pc = "loaded"
  /\ steps = << >>
  /\ IdleBatch

\* lines 39-49: the file is decoded again into a fresh buffer
Reload ==
  /\ pc = "matted"
  /\ imageData' = srcImage
  /\ before' = srcImage
  /\ lastOp' = LoadOp
  /\ pc' = "loaded"
  /\ UNCHANGED batchVars
  /\ UNCHANGED <<bgData, srcImage, prev, options, steps>>

\* line 66
MatteSubtract(threshold) ==
  /\ pc = "loaded"
  /\ \E ups \in SUBSET TiePixels(imageData, bgData, threshold) :
       imageData' = subtractBackground(imageData, bgData, threshold, ups)
  /\ before' = imageData
  /\ lastOp' = Op("subtractBackground", threshold, NoColor, 0, 0, 0)
  /\ pc' = "matted"
  /\ UNCHANGED batchVars
  /\ UNCHANGED <<bgData, srcImage, prev, options, steps>>

\* lines 70, 74
MatteByColor(targetColor, threshold) ==
  /\ pc = "loaded"
  /\ imageData' = removeByColor(imageData, targetColor, threshold)
  /\ before' = imageData
  /\ lastOp' = Op("removeByColor", threshold, targetColor, 0, 0, 0)
  /\ pc' = "matted"
  /\ UNCHANGED batchVars
  /\ UNCHANGED <<bgData, srcImage, prev, options, steps>>

NextMatte ==
  \/ \E t \in Thresholds : MatteSubtract(t)
  \/ \E c \in KeyColors, t \in Thresholds : MatteByColor(c, t)
  \/ Reload

SpecMatte == InitMatte /\ [][NextMatte]_vars

(***************************************************************************)
(* The same image matted against the same reference at several thresholds  *)
(***************************************************************************)
InitMono ==
  /\ srcImage \in {PaletteImage(ImgPalette, MaxDim, 1, s) : s \in 0..(Len(ImgPalette) - 1)}
  /\ bgData \in {PaletteImage(RefPalette, MaxDim, 1, s) : s \in 0..(Len(RefPalette) - 1)}
  /\ imageData = srcImage
  /\ before = srcImage
  /\ lastOp = LoadOp
  /\ prev = NoPrev
  /\ options = DefaultOptions
  /\ pc = "loaded"
  /\ steps = << >>
  /\ IdleBatch

\* a further run on the same file with another threshold (lines 39-66 again);
\* prev remembers the run before it
RematteSubtract(threshold) ==
  /\ pc \in {"loaded", "matted"}
  /\ \E ups \in SUBSET TiePixels(srcImage, bgData, threshold) :
       imageData' = subtractBackground(srcImage, bgData, threshold, ups)
  /\ before' = srcImage
  /\ prev' = IF lastOp.name = "subtractBackground"
             THEN [threshold |-> lastOp.threshold, image |-> imageData]
             ELSE prev
  /\ lastOp' = Op("subtractBackground", threshold, NoColor, 0, 0, 0)
  /\ pc' = IF pc = "loaded" THEN "matted" ELSE "rematted"
  /\ UNCHANGED batchVars
  /\ UNCHANGED <<bgData, srcImage, options, steps>>

NextMono == \E t \in Thresholds : RematteSubtract(t)

SpecMono == InitMono /\ [][NextMono]_vars

(***************************************************************************)
(* An image matted against a fully opaque reference of the same colours    *)
(***************************************************************************)
ScenarioDim == 10    \* the all-red image is ScenarioDim x ScenarioDim

AllRed(n) == PatternImage(<< Px(255, 0, 0, 255) >>, n, n, 1, 0)

\* img with every alpha set to 255
Opaque(img) ==
  [img EXCEPT !.data = [k \in 1..NumPixels(img) |-> [img.data[k] EXCEPT !.a = 255]]]

SameImages == {AllRed(ScenarioDim)} \cup MatteImages

InitSame ==
  /\ srcImage \in SameImages
  /\ bgData = Opaque(srcImage)
  /\ imageData = srcImage
  /\ before = srcImage
  /\ lastOp = LoadOp
  /\ prev = NoPrev
  /\ options = DefaultOptions
  /\ pc = "loaded"
  /\ steps = << >>
  /\ IdleBatch

NextSame ==
  \/ \E t \in Thresholds : MatteSubtract(t)
  \/ Reload

SpecSame == InitSame /\ [][NextSame]_vars

(***************************************************************************)
(* A refinement filter called on a decoded buffer                          *)
(***************************************************************************)
FilterDim == 7       \* filter inputs are FilterDim x FilterDim

MinGlassWidth == 1

MaxGlassWidth == 5

MaxBrightness == 255

\* visible pixels only: dark, bright translucent, bright opaque
FilterPalette ==
  << Px(0, 0, 255, 255), Px(250, 250, 250, 100), Px(240, 240, 240, 255),
     Px(230, 230, 230, 150), Px(90, 90, 90, 120) >>

FilterPaints ==
  {PatternImage(FilterPalette, FilterDim, FilterDim, m, s) :
     m \in {1, 2}, s \in {0, 1}}

\* paint with the single pixel (hx, hy) made fully transparent
HoleImage(paint, hx, hy) ==
  [paint EXCEPT !.data[Idx(hx, hy, paint.width)].a = 0]

\* paint with a fully transparent margin of m pixels on every side
MarginImage(paint, m) ==
  [paint EXCEPT !.data =
     [k \in 1..NumPixels(paint) |->
        IF /\ XOf(k, paint.width) \in m..(paint.width - 1 - m)
           /\ YOf(k, paint.width) \in m..(paint.height - 1 - m)
        THEN paint.data[k]
        ELSE [paint.data[k] EXCEPT !.a = 0]]]

HolePositions ==
  { <<0, 0>>, <<1, 1>>, <<0, FilterDim \div 2>>,
    <<FilterDim \div 2, FilterDim \div 2>>, <<FilterDim - 1, FilterDim - 1>> }

\* how many rows and columns lie between pixel k and the nearest side
Ring(k, width, height) ==
  Min2(Min2(XOf(k, width), width - 1 - XOf(k, width)),
       Min2(YOf(k, width), height - 1 - YOf(k, width)))

\* an opaque blue interior inside a one-pixel border of translucent bright
\* white, the border lying m pixels inside the canvas; nothing but full
\* transparency outside the border
BorderImage(n, m) ==
  [width |-> n, height |-> n,
   data |-> [k \in 1..(n * n) |->
               IF Ring(k, n, n) < m THEN Px(0, 0, 0, 0)
               ELSE IF Ring(k, n, n) = m THEN Px(250, 250, 250, 100)
               ELSE Px(0, 0, 255, 255)]]

BorderImages == {BorderImage(FilterDim, m) : m \in {0, 1}}

\* the image BorderImage(n, m) with the alpha of its border lowered to 99
FaintBorderImage(n, m) ==
  [BorderImage(n, m) EXCEPT !.data =
     [k \in 1..(n * n) |->
        IF Ring(k, n, n) = m THEN Px(250, 250, 250, 99) ELSE BorderImage(n, m).data[k]]]

\* a fully opaque square of the given side with m fully transparent pixels
\* around it on every side (m = 0: the square fills the canvas)
SquareImage(side, m) ==
  [width |-> side + 2 * m, height |-> side + 2 * m,
   data |-> [k \in 1..((side + 2 * m) * (side + 2 * m)) |->
               IF Ring(k, side + 2 * m, side + 2 * m) < m THEN Px(0, 0, 0, 0)
               ELSE Px(0, 0, 255, 255)]]

\* the 5 x 5 square, as the whole image and inside a transparent margin
SquareImages == {SquareImage(5, m) : m \in {0, 1}}

FilterImages ==
       {HoleImage(p, h[1], h[2]) : p \in FilterPaints, h \in HolePositions}
  \cup {MarginImage(p, m) : p \in FilterPaints, m \in 0..2}
  \cup BorderImages
  \cup SquareImages
  \cup {FaintBorderImage(FilterDim, 1)}

InitFilter ==
  /\ srcImage \in FilterImages
  /\ bgData = NoImage
  /\ imageData = srcImage
  /\ before = srcImage
  /\ lastOp = LoadOp
  /\ prev = NoPrev
  /\ options = DefaultOptions
  /\ pc = "loaded"
  /\ steps = << >>
  /\ IdleBatch

\* the filter mutates the buffer it is handed
Apply(result, op) ==
  /\ pc = "loaded"
  /\ imageData' = result
  /\ before' = imageData
  /\ lastOp' = op
  /\ pc' = "filtered"
  /\ UNCHANGED batchVars
  /\ UNCHANGED <<bgData, srcImage, prev, options, steps>>

ApplyLightEdges ==
  Apply(removeLightEdgeArtifacts(imageData),
        Op("removeLightEdgeArtifacts", 0, NoColor, 0, 0, 0))

ApplyErode(pixels) ==
  Apply(erodeEdges(imageData, pixels),
        Op("erodeEdges", 0, NoColor, pixels, 0, 0))

ApplyCleanup ==
  Apply(aggressiveEdgeCleanup(imageData),
        Op("aggressiveEdgeCleanup", 0, NoColor, 0, 0, 0))

\* the stored alpha of a tie is a function of the pixel's bytes and the
\* threshold, so equal pixels are rounded the same way
GlassRoundings(img, outlineWidth, brightThreshold) ==
  LET ties == GlassTiePixels(img, outlineWidth, brightThreshold)
  IN {{k \in ties : img.data[k] \in up} : up \in SUBSET {img.data[k] : k \in ties}}

ApplyGlass(outlineWidth, brightThreshold) ==
  /\ pc = "loaded"
  /\ \E ups \in GlassRoundings(imageData, outlineWidth, brightThreshold) :
       Apply(removeLiquidGlassOutline(imageData, outlineWidth, brightThreshold, ups),
             Op("removeLiquidGlassOutline", 0, NoColor, 0, outlineWidth, brightThreshold))

NextFilter ==
  \/ ApplyLightEdges
  \/ ApplyCleanup
  \/ \E n \in 0..MaxErodePixels : ApplyErode(n)
  \/ \E w \in MinGlassWidth..MaxGlassWidth, t \in 0..MaxBrightness : ApplyGlass(w, t)

SpecFilter == InitFilter /\ [][NextFilter]_vars

(***************************************************************************)
(* gaussianMethod of the edge laboratory: src/src/components/EdgeLab.tsx,  *)
(* lines 677-755.  The kernel weights Math.exp(-(x*x + y*y) / (2 sigma^2)) *)
(* with sigma = radius / 2 are irrational; the model keeps each weight as  *)
(* the interval of millionths that holds it and stores any alpha that      *)
(* Math.round can give for a quotient within the resulting bounds.  The    *)
(* normalisation of the kernel cancels in sum / weightSum.                 *)
(***************************************************************************)
BlurDim == 6         \* blur inputs are BlurDim pixels wide

\* floor(1000000 * Math.exp(-h / 2)) for the exponents that occur
ExpMillionths ==
  (0 :> 1000000) @@ (1 :> 606530) @@ (2 :> 367879) @@ (4 :> 135335) @@
  (5 :> 82084) @@ (8 :> 18315)

\* the weight kernel[(ky + radius) * kernelSize + (kx + radius)], rounded
\* down: -(x*x + y*y) / (2 sigma^2) = -(4 (x*x + y*y) / radius^2) / 2
generateGaussianKernel(radius, kx, ky) ==
  ExpMillionths[(4 * (kx * kx + ky * ky)) \div (radius * radius)]

\* the weight, rounded up (Math.exp(0) is exactly 1)
KernelHi(radius, kx, ky) ==
  IF kx = 0 /\ ky = 0 THEN generateGaussianKernel(radius, kx, ky)
  ELSE generateGaussianKernel(radius, kx, ky) + 1

\* the in-bounds kernel positions <<kx, ky>> around pixel k
KernelWindow(img, k, radius) ==
  {w \in (-radius..radius) \X (-radius..radius) :
     /\ XOf(k, img.width) + w[1] \in 0..(img.width - 1)
     /\ YOf(k, img.width) + w[2] \in 0..(img.height - 1)}

RECURSIVE SumOver(_, _)
SumOver(set, term) ==
  IF set = {} THEN 0
  ELSE LET w == CHOOSE e \in set : TRUE
       IN term[w] + SumOver(set \ {w}, term)

\* Math.round(sum / weightSum) with every weight at its lower bound in sum
\* and its upper bound in weightSum, and the other way round
BlurLo(tempAlpha, img, k, radius) ==
  LET win == KernelWindow(img, k, radius)
      alphaAt(w) == tempAlpha[k + w[2] * img.width + w[1]]
      sum == SumOver(win, [w \in win |-> alphaAt(w) * generateGaussianKernel(radius, w[1], w[2])])
      weightSum == SumOver(win, [w \in win |-> KernelHi(radius, w[1], w[2])])
  IN MathRound(sum, weightSum, FALSE)

BlurHi(tempAlpha, img, k, radius) ==
  LET win == KernelWindow(img, k, radius)
      alphaAt(w) == tempAlpha[k + w[2] * img.width + w[1]]
      sum == SumOver(win, [w \in win |-> alphaAt(w) * KernelHi(radius, w[1], w[2])])
      weightSum == SumOver(win, [w \in win |-> generateGaussianKernel(radius, w[1], w[2])])
  IN Min2(255, MathRound(sum, weightSum, TRUE))

\* "only edge pixels are processed": line 708
isEdgeAlpha(alpha) == alpha > 10 /\ alpha < 245

\* the processed pixels whose stored alpha the bounds leave open
BlurOpen(tempAlpha, img, radius) ==
  {k \in DOMAIN tempAlpha :
     /\ isEdgeAlpha(tempAlpha[k])
     /\ BlurLo(tempAlpha, img, k, radius) # BlurHi(tempAlpha, img, k, radius)}

\* one pass over the copy tempAlpha; ups: the open pixels that take the
\* upper value
gaussianPass(tempAlpha, img, radius, ups) ==
  [k \in DOMAIN tempAlpha |->
     IF isEdgeAlpha(tempAlpha[k])
     THEN IF k \in ups THEN BlurHi(tempAlpha, img, k, radius)
                       ELSE BlurLo(tempAlpha, img, k, radius)
     ELSE tempAlpha[k]]

\* the alpha channels the pass loop (lines 693-730) can leave
RECURSIVE gaussianPasses(_, _, _, _, _)
gaussianPasses(alpha, img, radius, pass, passes) ==
  IF pass < passes
  THEN UNION {gaussianPasses(gaussianPass(alpha, img, radius, ups), img, radius,
                             pass + 1, passes) :
                ups \in SUBSET BlurOpen(alpha, img, radius)}
  ELSE {alpha}

gaussianMethod(img, radius, passes) ==
  {[img EXCEPT !.data =
      [k \in 1..NumPixels(img) |-> [img.data[k] EXCEPT !.a = alpha[k]]]] :
     alpha \in gaussianPasses(Alphas(img), img, radius, 0, passes)}

BlurOp(radius, passes) ==
  [name |-> "gaussianMethod", threshold |-> 0, color |-> NoColor, passes |-> passes,
   outlineWidth |-> 0, brightThreshold |-> 0, radius |-> radius]

\* the radii and pass counts tried; the sliders offer 1..5 for both
BlurRadii == {1, 2}

BlurPassCounts == {1, 2}

\* the alpha of a column: transparent, translucent or opaque
BlurAlphas == {0, 128, 255}

\* an image whose alpha depends on the column only
ColumnImage(w, h, column) ==
  [width |-> w, height |-> h,
   data |-> [k \in 1..(w * h) |-> Px(0, 0, 255, column[XOf(k, w) + 1])]]

BlurImages ==
  {ColumnImage(BlurDim, h, column) : h \in {1, 3}, column \in [1..BlurDim -> BlurAlphas]}

InitBlur ==
  /\ srcImage \in BlurImages
  /\ bgData = NoImage
  /\ imageData = srcImage
  /\ before = srcImage
  /\ lastOp = LoadOp
  /\ prev = NoPrev
  /\ options = DefaultOptions
  /\ pc = "loaded"
  /\ steps = << >>
  /\ IdleBatch

ApplyGaussian(radius, passes) ==
  /\ pc = "loaded"
  /\ \E result \in gaussianMethod(imageData, radius, passes) :
       Apply(result, BlurOp(radius, passes))

NextBlur == \E radius \in BlurRadii, passes \in BlurPassCounts : ApplyGaussian(radius, passes)

SpecBlur == InitBlur /\ [][NextBlur]_vars

(***************************************************************************)
(* The batch driver BatchProcessor: src/unnamed/part_002.  A file name is  *)
(* a number, names comparing as localeCompare orders them; a File has a    *)
(* name, a content and a MIME type.  Every File handed to addFiles is an   *)
(* object of its own: its content is identified by the call and its place  *)
(* in the list.                                                            *)
(***************************************************************************)
MaxAddFiles == 2     \* addFiles calls in one behaviour

MaxRuns == 2         \* startBatchProcessing calls in one behaviour

NoBlob == << >>

NoError == ""

File(name, content, type) == [name |-> name, content |-> content, type |-> type]

\* lines 85-89: the entry addFiles makes of a File
PendingEntry(file) ==
  [original |-> file, status |-> "pending", error |-> NoError, processed |-> NoBlob]

\* line 82
isImage(file) == file.type = "image/png"

\* lines 93-94: the Map keeps the last index holding a name; 0 if none
existingByName(prevFiles, name) ==
  LET held == {j \in 1..Len(prevFiles) : prevFiles[j].original.name = name}
  IN IF held = {} THEN 0 ELSE CHOOSE j \in held : \A m \in held : m <= j

\* lines 92-110: the updater handed to setFiles
mergeFiles(prevFiles, adding) ==
  LET replacing(j) ==
        {m \in 1..Len(adding) :
           existingByName(prevFiles, adding[m].original.name) = j}
      last(set) == CHOOSE m \in set : \A n \in set : n <= m
      updated == [j \in 1..Len(prevFiles) |->
                    IF replacing(j) = {} THEN prevFiles[j]
                    ELSE adding[last(replacing(j))]]
      isNew(entry) == existingByName(prevFiles, entry.original.name) = 0
  IN updated \o SelectSeq(adding, isNew)

\* lines 239-241: a stable sort by name
sortedFiles(list) ==
  LET rank(j) == Cardinality({m \in 1..Len(list) :
                    \/ list[m].original.name < list[j].original.name
                    \/ /\ list[m].original.name = list[j].original.name
                       /\ m < j}) + 1
  IN [p \in 1..Len(list) |-> list[CHOOSE j \in 1..Len(list) : rank(j) = p]]

\* line 246: the first index holding the name
findIndex(list, name) ==
  LET held == {j \in 1..Len(list) : list[j].original.name = name}
  IN IF held = {} THEN 0 ELSE CHOOSE j \in held : \A m \in held : j <= m

\* faulty variant: entries already done are selected too
selectedAnyButProcessing(entry) == entry.status # "processing"

\* line 244
selected(entry) == entry.status \in {"pending", "error"}

\* line 342: the start button is enabled while some file is pending
pendingCount(list) == Cardinality({j \in 1..Len(list) : list[j].status = "pending"})

\* the first position >= from of sorted that the loop processes
nextSelected(sorted, from) ==
  LET hits == {p \in from..Len(sorted) : selected(sorted[p])}
  IN IF hits = {} THEN Len(sorted) + 1
     ELSE CHOOSE p \in hits : \A q \in hits : p <= q

\* what a File decodes to
ContentImage(content) ==
  PatternImage(PipePalette, 3, 3, 3, content[1] + content[2])

\* lines 243-253 and 178-198: the loop of startBatchProcessing from position
\* from, over the list the call closed over, up to its next await: either
\* processFile marks a file 'processing' and calls removeBackground, or the
\* loop ends and the finally block runs
RunLoop(list, from, logged) ==
  LET sorted == sortedFiles(list)
      p == nextSelected(sorted, from)
      originalIndex == findIndex(list, sorted[p].original.name)
  IN /\ pos' = p
     /\ IF p > Len(sorted)
        THEN /\ isProcessing' = FALSE
             /\ phase' = "idle"
             /\ log' = logged
             /\ files' = files
             /\ UNCHANGED <<imageData, srcImage, before, lastOp, prev, pc, steps>>
        ELSE /\ isProcessing' = TRUE
             /\ phase' = "awaiting"
             /\ log' = Append(logged, originalIndex)
             /\ files' = [files EXCEPT ![originalIndex].status = "processing"]
             /\ srcImage' = ContentImage(list[originalIndex].original.content)
             /\ imageData' = NoImage
             /\ before' = NoImage
             /\ lastOp' = LoadOp
             /\ prev' = NoPrev
             /\ steps' = << >>
             /\ pc' = "load"
     /\ UNCHANGED <<bgData, options>>

\* lines 226-247: the click on the start button
startBatchProcessing ==
  /\ ~ isProcessing
  /\ pendingCount(files) > 0
  /\ calls.startBatchProcessing < MaxRuns
  /\ calls' = [calls EXCEPT !.startBatchProcessing = @ + 1]
  /\ closure' = files
  /\ RunLoop(files, 1, << >>)
  /\ UNCHANGED filesToAdd

\* the index processFile was called with
current == log[Len(log)]

\* lines 200-212: removeBackground resolved
processFileDone ==
  /\ phase = "awaiting"
  /\ pc = "done"
  /\ files' = [files EXCEPT ![current].processed = closure[current].original.content,
                            ![current].status = "done"]
  /\ phase' = "pause"
  /\ UNCHANGED <<isProcessing, closure, pos, log, filesToAdd, calls>>
  /\ UNCHANGED <<imageData, bgData, srcImage, before, lastOp, prev, options, pc, steps>>

\* faulty variant: the error is passed on, so the loop ends in its finally
processFileCatchAborting ==
  /\ phase = "awaiting"
  /\ pc = "rejected"
  /\ files' = [files EXCEPT ![current].status = "error",
                            ![current].error = "Unknown error"]
  /\ phase' = "idle"
  /\ isProcessing' = FALSE
  /\ UNCHANGED <<closure, pos, log, filesToAdd, calls>>
  /\ UNCHANGED <<imageData, bgData, srcImage, before, lastOp, prev, options, pc, steps>>

\* lines 213-223: removeBackground rejected; the value img.onerror rejects
\* with is an Event, not an Error
processFileCatch ==
  /\ phase = "awaiting"
  /\ pc = "rejected"
  /\ files' = [files EXCEPT ![current].status = "error",
                            ![current].error = "Unknown error"]
  /\ phase' = "pause"
  /\ UNCHANGED <<isProcessing, closure, pos, log, filesToAdd, calls>>
  /\ UNCHANGED <<imageData, bgData, srcImage, before, lastOp, prev, options, pc, steps>>

\* faulty variant: processFile is not awaited
TimeoutNotAwaiting ==
  /\ phase \in {"pause", "awaiting"}
  /\ RunLoop(closure, pos + 1, log)
  /\ UNCHANGED <<closure, filesToAdd, calls>>

\* line 248 and the next iterations: the 50 ms timer fires
Timeout ==
  /\ phase = "pause"
  /\ RunLoop(closure, pos + 1, log)
  /\ UNCHANGED <<closure, filesToAdd, calls>>

\* lines 78-90: addFiles up to the setFiles call; the drop zone is disabled
\* while a batch runs (line 574)
addFilesBegin(newFiles) ==
  /\ ~ isProcessing
  /\ filesToAdd = << >>
  /\ calls.addFiles < MaxAddFiles
  /\ calls' = [calls EXCEPT !.addFiles = @ + 1]
  /\ LET dropped == [m \in 1..Len(newFiles) |->
                        File(newFiles[m].name,
                             <<calls.addFiles + 1, m>>,
                             newFiles[m].type)]
         images == SelectSeq(dropped, isImage)
     IN filesToAdd' = [m \in 1..Len(images) |-> PendingEntry(images[m])]
  /\ UNCHANGED <<files, isProcessing, closure, pos, phase, log>>
  /\ UNCHANGED <<imageData, bgData, srcImage, before, lastOp, prev, options, pc, steps>>

\* lines 92-110: the previews are ready and setFiles runs
addFilesCommit ==
  /\ filesToAdd # << >>
  /\ files' = mergeFiles(files, filesToAdd)
  /\ filesToAdd' = << >>
  /\ UNCHANGED <<isProcessing, closure, pos, phase, log, calls>>
  /\ UNCHANGED <<imageData, bgData, srcImage, before, lastOp, prev, options, pc, steps>>

\* what the user drops: images of every name, and one file that is no image
FileNames == {1, 2}

DropFiles ==
       {[name |-> n, type |-> "image/png"] : n \in FileNames}
  \cup {[name |-> 1, type |-> "text/plain"]}

\* one file or two files are dropped at a time
NewFileLists ==
  {<<f>> : f \in DropFiles} \cup {<<f, g>> : f \in DropFiles, g \in DropFiles}

\* the settings the component starts with (lines 34-40) and a preset with
\* every refinement switched on
BatchOptions ==
  { Options(20, FALSE, Undefined, FALSE, 0, FALSE, FALSE, 2, 200),
    Options(35, TRUE, Undefined, TRUE, 2, TRUE, TRUE, 2, 220) }

InitBatch ==
  /\ IdleBatch
  /\ options \in BatchOptions
  /\ bgData = NoImage
  /\ srcImage = NoImage
  /\ imageData = NoImage
  /\ before = NoImage
  /\ lastOp = LoadOp
  /\ prev = NoPrev
  /\ pc = "idle"
  /\ steps = << >>

NextBatch ==
  \/ \E newFiles \in NewFileLists : addFilesBegin(newFiles)
  \/ addFilesCommit
  \/ startBatchProcessing
  \/ processFileDone
  \/ processFileCatch
  \/ Timeout
  \/ Next

SpecBatch == InitBatch /\ [][NextBatch]_vars

(***************************************************************************)
(* Claims about matting                                                    *)
(***************************************************************************)
\* out is a nearest integer to num/den
IsNearest(out, num, den) == 2 * Abs(out * den - num) <= den

RanSubtract == lastOp.name = "subtractBackground"

RanByColor == lastOp.name = "removeByColor"

\* the pixels the reference-mode loop pairs with a reference pixel
Paired == {k \in 1..NumPixels(before) : k <= NumPixels(bgData)}

\* C1: reference mode, reference alpha > 0, eff = threshold * refAlpha / 100:
\* maxDiff < eff gives alpha 0; eff <= maxDiff < 1.5 eff gives the alpha
\* nearest to alpha * (maxDiff - eff) / (0.5 eff); otherwise the pixel is
\* unchanged.  R, G, B are unchanged in all three cases.
C1_ReferenceMatteRule ==
  RanSubtract =>
    \A k \in Paired :
      LET in == before.data[k]
          ref == bgData.data[k]
          out == imageData.data[k]
          t == lastOp.threshold
          d == MaxDiff(in, ref)
      IN ref.a > 0 =>
           /\ 100 * d < t * ref.a => out = [in EXCEPT !.a = 0]
           /\ (100 * d >= t * ref.a /\ 200 * d < 3 * t * ref.a) =>
                /\ IsNearest(out.a, in.a * 2 * (100 * d - t * ref.a), t * ref.a)
                /\ [out EXCEPT !.a = in.a] = in
           /\ 200 * d >= 3 * t * ref.a => out = in

\* C1 witness: one run in which all three cases occur, the fade strictly
\* between 0 and the input alpha
C1_Witness ==
  /\ RanSubtract
  /\ \E k \in Paired : bgData.data[k].a > 0 /\ before.data[k].a > 0
                       /\ imageData.data[k].a = 0
                       /\ 100 * MaxDiff(before.data[k], bgData.data[k])
                            < lastOp.threshold * bgData.data[k].a
  /\ \E k \in Paired : bgData.data[k].a > 0
                       /\ imageData.data[k].a > 0
                       /\ imageData.data[k].a < before.data[k].a
  /\ \E k \in Paired : bgData.data[k].a > 0 /\ before.data[k].a > 0
                       /\ 200 * MaxDiff(before.data[k], bgData.data[k])
                            >= 3 * lastOp.threshold * bgData.data[k].a

\* C2: a pixel whose reference pixel has alpha 0 is left unchanged in all
\* four channels, at every threshold
C2_TransparentReferenceUntouched ==
  RanSubtract =>
    \A k \in Paired : bgData.data[k].a = 0 => imageData.data[k] = before.data[k]

\* C2 witness: a visible pixel of exactly the reference colour under a
\* reference pixel of alpha 0, at the largest threshold
C2_Witness ==
  /\ RanSubtract
  /\ lastOp.threshold = MaxThreshold
  /\ \E k \in Paired : /\ bgData.data[k].a = 0
                       /\ MaxDiff(before.data[k], bgData.data[k]) = 0
                       /\ before.data[k].a > 0

\* C3: for the same image and reference, a pixel that is fully transparent
\* after a run at threshold t is fully transparent after a run at any t' > t
C3_MonotoneInThreshold ==
  (RanSubtract /\ prev # NoPrev) =>
    \A k \in 1..NumPixels(imageData) :
      /\ (prev.threshold < lastOp.threshold /\ prev.image.data[k].a = 0)
            => imageData.data[k].a = 0
      /\ (lastOp.threshold < prev.threshold /\ imageData.data[k].a = 0)
            => prev.image.data[k].a = 0

\* C3 witness: a visible pixel zeroed by rounding inside the fade band at the
\* smaller threshold, and a second pixel that only the larger threshold zeroes
C3_Witness ==
  /\ RanSubtract /\ prev # NoPrev
  /\ prev.threshold < lastOp.threshold
  /\ \E k \in Paired : /\ srcImage.data[k].a > 0
                       /\ prev.image.data[k].a = 0
                       /\ InFadeBand(srcImage.data[k], bgData.data[k], prev.threshold)
                       /\ 100 * MaxDiff(srcImage.data[k], bgData.data[k])
                            > prev.threshold * bgData.data[k].a
  /\ \E k \in Paired : prev.image.data[k].a > 0 /\ imageData.data[k].a = 0

\* C4: matting never increases a pixel's alpha, so a fully transparent pixel
\* stays fully transparent
C4_MattingNeverIncreasesAlpha ==
  (RanSubtract \/ RanByColor) =>
    \A k \in 1..NumPixels(imageData) : imageData.data[k].a <= before.data[k].a

\* C4 witness: a colour-key run over an image holding an already transparent
\* pixel, a pixel it removes and a pixel of small alpha it keeps
C4_Witness ==
  /\ RanByColor
  /\ \E k \in 1..NumPixels(before) : before.data[k].a = 0
  /\ \E k \in 1..NumPixels(before) : before.data[k].a > 0 /\ imageData.data[k].a = 0
  /\ \E k \in 1..NumPixels(before) : before.data[k].a = 1 /\ imageData.data[k].a = 1

\* C4 witness for the reference mode is C1_Witness; this one names the case
\* of the claim's second half in reference mode
C4_WitnessReference ==
  /\ RanSubtract
  /\ \E k \in Paired : before.data[k].a = 0 /\ bgData.data[k].a > 0
                       /\ InFadeBand(before.data[k], bgData.data[k], lastOp.threshold)

\* C5: colour key, d = (|dR| + |dG| + |dB|) / 3: d < threshold (no x2.55)
\* gives alpha 0; otherwise the alpha is the smaller of the existing alpha
\* and the alpha nearest to min(255, 255 d / threshold)
C5_ColorKeyRule ==
  RanByColor =>
    \A k \in 1..NumPixels(before) :
      LET in == before.data[k]
          out == imageData.data[k]
          t == lastOp.threshold
          sum == SumDiff(in, lastOp.color)
      IN /\ [out EXCEPT !.a = in.a] = in
         /\ sum < 3 * t => out.a = 0
         /\ sum >= 3 * t =>
              \E scaled \in 0..255 :
                 /\ IsNearest(scaled, Min2(255 * 3 * t, 255 * sum), 3 * t)
                 /\ out.a = Min2(in.a, scaled)

\* C5 witness: a visible pixel with threshold <= d < 2.55 threshold is kept,
\* next to a visible pixel with d < threshold that is removed
C5_Witness ==
  /\ RanByColor
  /\ \E k \in 1..NumPixels(before) :
       LET sum == SumDiff(before.data[k], lastOp.color)
       IN /\ before.data[k].a > 0
          /\ sum >= 3 * lastOp.threshold
          /\ 100 * sum < 3 * 255 * lastOp.threshold
          /\ imageData.data[k].a = before.data[k].a
  /\ \E k \in 1..NumPixels(before) :
       /\ before.data[k].a > 0
       /\ SumDiff(before.data[k], lastOp.color) < 3 * lastOp.threshold
       /\ imageData.data[k].a = 0

\* C28: in colour-key matting every pixel's output alpha is 0 or exactly
\* its input alpha, for every target colour and every threshold in 1..100;
\* no pixel receives a partially reduced alpha
C28_ColorKeyAllOrNothing ==
  RanByColor =>
    \A k \in 1..NumPixels(before) :
      imageData.data[k].a \in {0, before.data[k].a}

\* a translucent pixel whose distance d lies just above the threshold
\* (threshold <= d < 1.5 threshold) keeps its alpha, and an opaque pixel
\* below the threshold is removed
C28_Witness ==
  /\ RanByColor
  /\ \E k \in 1..NumPixels(before) :
       /\ before.data[k].a > 0 /\ before.data[k].a < 255
       /\ SumDiff(before.data[k], lastOp.color) >= 3 * lastOp.threshold
       /\ 2 * SumDiff(before.data[k], lastOp.color) < 9 * lastOp.threshold
       /\ imageData.data[k].a = before.data[k].a
  /\ \E k \in 1..NumPixels(before) :
       /\ before.data[k].a = 255
       /\ imageData.data[k].a = 0

\* C6: with a reference of other dimensions, the image pixel at (x, y) is
\* matted against the reference pixel at the same (x, y) wherever both
\* exist, and every image position outside the reference is untouched
C6_SamePositionCompared ==
  RanSubtract =>
    \A k \in 1..NumPixels(before) :
      LET x == XOf(k, before.width)
          y == YOf(k, before.width)
      IN IF x < bgData.width /\ y < bgData.height
         THEN \E tieUp \in BOOLEAN :
                imageData.data[k] =
                  subtractPixel(before.data[k], bgData.data[y * bgData.width + x + 1],
                                lastOp.threshold, tieUp)
         ELSE imageData.data[k] = before.data[k]

\* image and reference have the same R, G, B at every position
SameRgb(img, bg) ==
  /\ img.width = bg.width /\ img.height = bg.height
  /\ \A k \in 1..NumPixels(img) : Rgb(img, k) = Rgb(bg, k)

\* C19: when the image has the reference's RGB at every position and the
\* reference is fully opaque, reference-mode matting leaves every alpha 0,
\* at every threshold in 1..100
C19_SameAsReferenceCleared ==
  (/\ RanSubtract
   /\ SameRgb(before, bgData)
   /\ \A k \in 1..NumPixels(bgData) : bgData.data[k].a = 255) =>
    \A k \in 1..NumPixels(imageData) : imageData.data[k].a = 0

\* the all-red opaque 10 x 10 image was matted against the all-red reference
\* at threshold 30
C19_Witness ==
  /\ RanSubtract
  /\ lastOp.threshold = 30
  /\ before = AllRed(ScenarioDim)
  /\ bgData = AllRed(ScenarioDim)
  /\ \A k \in 1..NumPixels(imageData) : imageData.data[k].a = 0

(***************************************************************************)
(* Claims about removeBackground and the refinement filters                *)
(***************************************************************************)
MattingNames == {"subtractBackground", "removeByColor"}

IsMatting(op) == op.name \in MattingNames

Matted == pc \in {"smooth", "lightEdges", "erode", "cleanup", "glass", "encode",
                  "done", "unsettled"}

\* the sum of one channel over the pixels at the four corners (0,0), (w-1,0),
\* (0,h-1), (w-1,h-1) of the decoded image
CornerSum(channel) ==
  LET w == srcImage.width
      h == srcImage.height
      at(x, y) == srcImage.data[y * w + x + 1]
  IN IF channel = "r" THEN at(0, 0).r + at(w - 1, 0).r + at(0, h - 1).r + at(w - 1, h - 1).r
     ELSE IF channel = "g"
          THEN at(0, 0).g + at(w - 1, 0).g + at(0, h - 1).g + at(w - 1, h - 1).g
          ELSE at(0, 0).b + at(w - 1, 0).b + at(0, h - 1).b + at(w - 1, h - 1).b

C7_WitnessColor ==
  /\ pc = "done"
  /\ bgData = NoImage
  /\ options.targetBackgroundColor = HexDark
  /\ prev.image # srcImage

\* C7: the corner path, with corners of different colours
C7_WitnessDetect ==
  /\ pc = "done"
  /\ bgData = NoImage
  /\ options.targetBackgroundColor = Undefined
  /\ srcImage.data[1] # srcImage.data[srcImage.width]
  /\ CornerSum("r") % 4 # 0

Names(ops) == [i \in 1..Len(ops) |-> ops[i].name]

\* the refinement functions whose option is active, in the declared order
ActiveFilters ==
     (IF options.edgeSmoothing THEN << "smoothEdges" >> ELSE << >>)
  \o (IF options.removeLightEdges THEN << "removeLightEdgeArtifacts" >> ELSE << >>)
  \o (IF options.erodePixels > 0 THEN << "erodeEdges" >> ELSE << >>)
  \o (IF options.edgeCleanup THEN << "aggressiveEdgeCleanup" >> ELSE << >>)
  \o (IF options.removeLiquidGlass THEN << "removeLiquidGlassOutline" >> ELSE << >>)

\* the buffer before the liquid-glass step if every active step had taken
\* the output of the one before it, starting from the matted image
ChainedBeforeGlass ==
  LET s1 == IF options.edgeSmoothing THEN smoothEdges(prev.image) ELSE prev.image
      s2 == IF options.removeLightEdges THEN removeLightEdgeArtifacts(s1) ELSE s1
      s3 == IF options.erodePixels > 0 THEN erodeEdges(s2, options.erodePixels) ELSE s2
  IN IF options.edgeCleanup THEN aggressiveEdgeCleanup(s3) ELSE s3

\* C8: matting runs first, then exactly the active refinement steps in the
\* order smoothing, light-edge removal, erosion, cleanup, liquid-glass
\* removal, each on the output of the steps before it
C8_FixedStepOrder ==
  pc = "done" =>
    /\ IsMatting(steps[1])
    /\ Names(Tail(steps)) = ActiveFilters
    /\ IF options.removeLiquidGlass
       THEN \E ups \in SUBSET GlassTiePixels(ChainedBeforeGlass,
                              options.glassOutlineWidth, options.glassBrightness) :
              imageData = removeLiquidGlassOutline(ChainedBeforeGlass,
                            options.glassOutlineWidth, options.glassBrightness, ups)
       ELSE imageData = ChainedBeforeGlass

\* C8 witness: all five steps active, and the order matters: erosion after
\* cleanup would have given another image
C8_Witness ==
  /\ pc = "done"
  /\ Len(steps) = 6
  /\ imageData # prev.image
  /\ LET s1 == removeLightEdgeArtifacts(smoothEdges(prev.image))
     IN erodeEdges(aggressiveEdgeCleanup(s1), options.erodePixels)
          # aggressiveEdgeCleanup(erodeEdges(s1, options.erodePixels))

FilterNames == {"smoothEdges", "removeLightEdgeArtifacts", "erodeEdges",
                "aggressiveEdgeCleanup", "removeLiquidGlassOutline"}

\* C9: a pixel with alpha 0 before a refinement filter has alpha 0 after it,
\* and a pixel transparent after matting is transparent from then on
C9_FiltersKeepTransparent ==
  /\ lastOp.name \in FilterNames =>
       \A k \in 1..NumPixels(before) : before.data[k].a = 0 => imageData.data[k].a = 0
  /\ Matted =>
       \A k \in 1..NumPixels(imageData) :
          prev.image.data[k].a = 0 => imageData.data[k].a = 0

\* C9 witness: all five filters have run on an image in which matting left a
\* transparent inner pixel with a visible neighbour, and the filters changed
\* the image
C9_Witness ==
  /\ pc = "done"
  /\ Len(steps) = 6
  /\ imageData # prev.image
  /\ \E k \in InnerPixels(prev.image) :
       /\ prev.image.data[k].a = 0
       /\ \E n \in Neighbours8(k, prev.image.width) : prev.image.data[n].a > 0

\* pixel n is one of the eight neighbours of pixel k in an image of that width
Adjacent(k, n, width) ==
  /\ n # k
  /\ Abs(XOf(k, width) - XOf(n, width)) <= 1
  /\ Abs(YOf(k, width) - YOf(n, width)) <= 1

HasTransparentNeighbour(img, k) ==
  \E n \in 1..NumPixels(img) : Adjacent(k, n, img.width) /\ img.data[n].a = 0

\* C10: removeLightEdgeArtifacts changes only pixels that are visible and
\* have a fully transparent 8-neighbour in its input
C10_LightEdgesOnlyOuterEdge ==
  lastOp.name = "removeLightEdgeArtifacts" =>
    \A k \in 1..NumPixels(before) :
       imageData.data[k] # before.data[k] =>
         (before.data[k].a > 0 /\ HasTransparentNeighbour(before, k))

\* C10 witness: the filter lowers an outer-edge pixel and leaves a light
\* semi-transparent pixel without transparent neighbour as it was
C10_Witness ==
  /\ lastOp.name = "removeLightEdgeArtifacts"
  /\ \E k \in 1..NumPixels(before) : imageData.data[k].a < before.data[k].a
  /\ \E k \in 1..NumPixels(before) :
       /\ before.data[k].a > 0 /\ before.data[k].a < 200
       /\ Sum3(before.data[k]) > 540
       /\ ~ HasTransparentNeighbour(before, k)
       /\ imageData.data[k] = before.data[k]

\* C13: removeBackground never changes the R, G or B channel of a pixel:
\* in every matting mode and with every options record, the buffer keeps
\* the colour channels the file was decoded to
C13_RgbUntouched ==
  imageData # NoImage =>
    \A k \in 1..NumPixels(srcImage) : Rgb(imageData, k) = Rgb(srcImage, k)

\* matting and all five filters ran, the last one changed the buffer, and a
\* coloured pixel lost its alpha
C13_Witness ==
  /\ pc = "encode"
  /\ Len(steps) = 6
  /\ imageData # before
  /\ \E k \in 1..NumPixels(srcImage) :
       /\ srcImage.data[k].a > 0
       /\ imageData.data[k].a = 0
       /\ Rgb(srcImage, k) # <<0, 0, 0>>

\* C18: erosion with N = 0 is a no-op: with erodePixels = 0 removeBackground
\* does not run erodeEdges, and erodeEdges with pixels = 0 returns every
\* buffer the pipeline holds unchanged
C18_ZeroErosionNoOp ==
  /\ options.erodePixels = 0 =>
       \A m \in 1..Len(steps) : steps[m].name # "erodeEdges"
  /\ imageData # NoImage => erodeEdges(imageData, 0) = imageData

\* the erosion block was passed with erodePixels = 0 on a buffer that one
\* pass of erosion would have changed
C18_Witness ==
  /\ pc = "cleanup"
  /\ options.erodePixels = 0
  /\ imageData # NoImage
  /\ erodeEdges(imageData, 1) # imageData

(***************************************************************************)
(* Claims about the refinement filters called on their own                 *)
(***************************************************************************)
Ran(name) == pc = "filtered" /\ lastOp.name = name

\* the pixels the last operation changed
Changed == {k \in 1..NumPixels(before) : imageData.data[k] # before.data[k]}

\* pixel k of img has a fully transparent pixel at Chebyshev distance <= d
NearTransparent(img, k, d) == \E t \in Within(img, k, d) : img.data[t].a = 0

\* C11: erodeEdges with N passes changes no pixel that is farther than N
\* pixels (Chebyshev distance) from every fully transparent pixel of its
\* input; with one pass every changed pixel has a transparent 8-neighbour
C11_ErodeWithinPasses ==
  Ran("erodeEdges") =>
    \A k \in Changed :
      /\ NearTransparent(before, k, lastOp.passes)
      /\ lastOp.passes = 1 => HasTransparentNeighbour(before, k)

\* two passes reached a pixel at distance exactly 2 and spared a visible
\* inner pixel farther away
C11_Witness ==
  /\ Ran("erodeEdges")
  /\ lastOp.passes = 2
  /\ \E k \in Changed : ~ NearTransparent(before, k, 1)
  /\ \E k \in InnerPixels(before) \ Changed :
       /\ before.data[k].a > 0
       /\ ~ NearTransparent(before, k, 2)


\* C12: removeLiquidGlassOutline with outline width w changes no pixel that
\* is farther than w pixels (Chebyshev distance) from every fully
\* transparent pixel of its input, for w in 1..5 and thresholds 0..255
C12_GlassWithinWidth ==
  Ran("removeLiquidGlassOutline") =>
    \A k \in Changed : NearTransparent(before, k, lastOp.outlineWidth)

\* C20: removeLightEdgeArtifacts applied to an opaque blue interior inside
\* a one-pixel border of bright white (250,250,250) with alpha 100 reduces
\* the alpha of every border pixel and leaves every interior alpha as it was
C20_WhiteBorderReduced ==
  (Ran("removeLightEdgeArtifacts") /\ before \in BorderImages) =>
    \A k \in 1..NumPixels(before) :
      /\ before.data[k] = Px(250, 250, 250, 100) =>
           imageData.data[k].a < before.data[k].a
      /\ before.data[k] = Px(0, 0, 255, 255) =>
           imageData.data[k].a = before.data[k].a

\* the margin around the square of a SquareImage
SquareMargin(img) == (img.width - 5) \div 2

\* C21: erodeEdges with pixels = 2 applied to a 5x5 fully opaque square
\* leaves only the centre pixel opaque; each pass removes exactly one outer
\* ring of the square (after one pass the inner 3x3 block is left)
C21_SquareErodedToCentre ==
  (Ran("erodeEdges") /\ before \in SquareImages /\ lastOp.passes \in {1, 2}) =>
    \A k \in 1..NumPixels(before) :
      imageData.data[k].a =
        IF Ring(k, before.width, before.height) >= SquareMargin(before) + lastOp.passes
        THEN 255 ELSE 0

\* the second store of removeLiquidGlassOutline (line 572) applies to px
GlassFlatCut(px, brightThreshold) ==
  px.a > 0 /\ px.a < 180 /\ Sum3(px) > 3 * (brightThreshold - 20)

\* C23: every alpha a refinement filter writes is the exact result, clamped
\* to [0,255] and rounded to the nearest integer, never truncated: the
\* alpha of removeLightEdgeArtifacts is nearest to alpha - (brightness - 128)
\* clamped at 0, and the alpha of removeLiquidGlassOutline is nearest to
\* 0.3 alpha where the flat cut applies and to alpha - alphaReduction elsewhere
C23_StoredAlphaNearest ==
  /\ Ran("removeLightEdgeArtifacts") =>
       \A k \in Changed :
         IsNearest(imageData.data[k].a,
                   Max2(0, 3 * before.data[k].a - (Sum3(before.data[k]) - 3 * 128)), 3)
  /\ Ran("removeLiquidGlassOutline") =>
       \A k \in Changed :
         IF GlassFlatCut(before.data[k], lastOp.brightThreshold)
         THEN IsNearest(imageData.data[k].a, 3 * before.data[k].a, 10)
         ELSE IsNearest(imageData.data[k].a,
                        GlassNum(before.data[k], lastOp.brightThreshold),
                        GlassDen(lastOp.brightThreshold))

\* C26: for a process-zone pixel of removeLiquidGlassOutline with
\* 0 < alpha < 180 and brightness above the threshold T, the final alpha is
\* never greater than the proportionally attenuated alpha
\* a - a (brightness - T) / (255 - T): the flat cut comes on top of it
C26_FlatCutOnTopOfAttenuation ==
  Ran("removeLiquidGlassOutline") =>
    \A k \in processZone(before, lastOp.outlineWidth) :
      (/\ before.data[k].a > 0 /\ before.data[k].a < 180
       /\ Sum3(before.data[k]) > 3 * lastOp.brightThreshold) =>
        imageData.data[k].a * GlassDen(lastOp.brightThreshold)
          <= GlassNum(before.data[k], lastOp.brightThreshold)

\* the rule of aggressiveEdgeCleanup read on one buffer: pixel k is
\* translucent below 128, brighter than 150 and has fewer than 3 in-bounds
\* 8-neighbours with alpha above 200
Speckle(img, k) ==
  /\ img.data[k].a > 0 /\ img.data[k].a < 128
  /\ Sum3(img.data[k]) > 3 * 150
  /\ Cardinality({n \in Within(img, k, 1) \ {k} : img.data[n].a > 200}) < 3

\* C27: aggressiveEdgeCleanup sets alpha to 0 for exactly the pixels the
\* rule selects in its input and leaves every other pixel unchanged (the
\* in-place scan gives what the rule gives on a snapshot of the input), and
\* applying it to its own result changes nothing
C27_CleanupIsSnapshotRule ==
  Ran("aggressiveEdgeCleanup") =>
    /\ \A k \in 1..NumPixels(before) :
         imageData.data[k] = IF Speckle(before, k)
                             THEN [before.data[k] EXCEPT !.a = 0]
                             ELSE before.data[k]
    /\ aggressiveEdgeCleanup(imageData) = imageData

\* the scan cleared a pixel after it had cleared one of that pixel's
\* neighbours, and kept a bright translucent pixel that has three opaque
\* neighbours
C27_Witness ==
  /\ Ran("aggressiveEdgeCleanup")
  /\ \E k \in Changed : \E n \in Changed : n < k /\ n \in Within(before, k, 1)
  /\ \E k \in 1..NumPixels(before) :
       /\ before.data[k].a > 0 /\ before.data[k].a < 128
       /\ Sum3(before.data[k]) > 3 * 150
       /\ ~ Speckle(before, k)
       /\ imageData.data[k] = before.data[k]

\* the pixels of the first and last row and column
SidePixels(img) == (1..NumPixels(img)) \ InnerPixels(img)

\* C30: erodeEdges never changes a pixel of the first or last row or
\* column, whatever the number of passes and even when the pixel has a
\* fully transparent 8-neighbour; an image without a fully transparent
\* pixel is left unchanged
C30_ErodeSparesSides ==
  Ran("erodeEdges") =>
    /\ \A k \in SidePixels(before) : imageData.data[k] = before.data[k]
    /\ (\A k \in 1..NumPixels(before) : before.data[k].a > 0) => imageData = before

\* erosion removed an inner pixel and kept a visible pixel on the side of
\* the image that touches a fully transparent pixel
C30_Witness ==
  /\ Ran("erodeEdges")
  /\ lastOp.passes > 0
  /\ Changed # {}
  /\ \E k \in SidePixels(before) :
       /\ before.data[k].a > 0
       /\ \E n \in Within(before, k, 1) : before.data[n].a = 0
       /\ imageData.data[k].a = before.data[k].a

(***************************************************************************)
(* Claims about gaussianMethod                                             *)
(***************************************************************************)
\* a hard alpha step: every column is fully transparent or fully opaque,
\* the columns left of column edge are one and the others the other, and
\* the kernel's span around the boundary lies inside the image
IsHardStep(img, edge, radius) ==
  /\ edge - radius >= 0 /\ edge + radius <= img.width
  /\ \A k \in 1..NumPixels(img) : img.data[k].a \in {0, 255}
  /\ \A k, n \in 1..NumPixels(img) :
       (img.data[k].a = img.data[n].a) <=>
         ((XOf(k, img.width) < edge) <=> (XOf(n, img.width) < edge))

\* the alphas of row y over the columns within radius of the boundary
SpanAlphas(img, y, edge, radius) ==
  [x \in (edge - radius)..(edge + radius - 1) |-> img.data[Idx(x, y, img.width)].a]

StrictlyMonotonic(f) ==
  \/ \A x \in DOMAIN f : (x + 1) \in DOMAIN f => f[x] < f[x + 1]
  \/ \A x \in DOMAIN f : (x + 1) \in DOMAIN f => f[x] > f[x + 1]

\* C22: gaussianMethod with radius 2 and one pass applied to a hard alpha
\* step gives, in every row, strictly monotonic alphas over the columns
\* within the radius of the boundary (so intermediate values appear), and
\* every output alpha lies in 0..255
C22_StepBlurredMonotonic ==
  (Ran("gaussianMethod") /\ lastOp.radius = 2 /\ lastOp.passes = 1) =>
    /\ \A k \in 1..NumPixels(imageData) : imageData.data[k].a \in 0..255
    /\ \A edge \in 1..(before.width - 1) :
         IsHardStep(before, edge, 2) =>
           \A y \in 0..(before.height - 1) :
             StrictlyMonotonic(SpanAlphas(imageData, y, edge, 2))

(***************************************************************************)
(* Claims about the batch driver                                           *)
(***************************************************************************)
Processing == {j \in 1..Len(files) : files[j].status = "processing"}

\* the positions of the closed-over list that the loop has still to visit
Remaining == {p \in (pos + 1)..Len(closure) : selected(sortedFiles(closure)[p])}

\* C14: when loading or decoding the file being processed fails, that
\* entry's status becomes 'error' with a message, every other entry keeps
\* its status and results, and the run goes on: it stays in progress and
\* its next step starts the next selected file if there is one
C14_LoadFailureIsolated ==
  [][/\ (phase = "awaiting" /\ pc = "rejected" /\ phase' # phase) =>
          /\ files'[current].status = "error"
          /\ files'[current].error # NoError
          /\ Len(files') = Len(files)
          /\ \A j \in 1..Len(files) : j # current => files'[j] = files[j]
          /\ isProcessing' /\ phase' = "pause"
          /\ closure' = closure /\ pos' = pos
     /\ (phase = "pause" /\ phase' # phase /\ Remaining # {}) =>
          /\ phase' = "awaiting"
          /\ pos' \in Remaining
    ]_vars

\* a file failed to load and carries the message, and the entry after it in
\* name order was processed to the end in the same run
C14_Witness ==
  /\ Len(log) = 2
  /\ log[1] # log[2]
  /\ files[log[1]].status = "error"
  /\ files[log[1]].error = "Unknown error"
  /\ files[log[2]].status = "done"
  /\ files[log[2]].processed = files[log[2]].original.content

\* C15: when canvas.toBlob delivers no blob, the batch driver catches the
\* failure: the step that marks the file 'error' can be taken
C15_EncodeFailureCaught ==
  (phase = "awaiting" /\ pc = "unsettled") => ENABLED processFileCatch

\* C16: at most one entry has status 'processing', and an entry becomes
\* 'processing' only when no processFile call is awaited: the call before
\* it has marked its file 'done' or 'error' (an entry that addFiles has
\* replaced since then is 'pending' again)
C16_StrictlySequential ==
  /\ [](Cardinality(Processing) <= 1)
  /\ [][(\E j \in 1..Len(files) :
           files'[j].status = "processing" /\ files[j].status # "processing") =>
          /\ Processing = {}
          /\ phase # "awaiting"
          /\ log # << >> => files[current].status \in {"done", "error", "pending"}
       ]_vars

\* a second file is being processed after the first one was marked
C16_Witness ==
  /\ Len(log) = 2
  /\ log[1] # log[2]
  /\ files[log[1]].status \in {"done", "error"}
  /\ files[log[2]].status = "processing"

\* C17: within a run only entries that were 'pending' or 'error' are
\* processed, no entry is processed twice, a finished run has processed
\* every selected entry, and an entry that is 'done' is not processed again
C17_EachSelectedOnce ==
  /\ \A m \in 1..Len(log) : selected(closure[log[m]])
  /\ \A m, n \in 1..Len(log) : m # n => log[m] # log[n]
  /\ (phase = "idle" /\ calls.startBatchProcessing > 0) =>
       \A j \in 1..Len(closure) :
         selected(closure[j]) => \E m \in 1..Len(log) : log[m] = j

\* the last startBatchProcessing call has run to its end
RunFinished == phase = "idle" /\ calls.startBatchProcessing > 0

\* C24: when startBatchProcessing has finished, every file that was
\* 'pending' or 'error' when the run started and is still in the list is
\* 'done' or 'error': none is left 'pending'
C24_NoneLeftPending ==
  RunFinished =>
    \A j \in 1..Len(closure) :
      (selected(closure[j]) /\ files[j].original = closure[j].original) =>
        files[j].status \in {"done", "error"}

\* the names of the entries of a list
EntryNames(list) == {list[j].original.name : j \in 1..Len(list)}

\* C25: no two entries of the file list have the same name, and when
\* addFiles commits, every name it adds is held by an entry that is
\* 'pending' and has no processed result
C25_AddFilesReplacesDuplicates ==
  /\ [](\A j, m \in 1..Len(files) :
          files[j].original.name = files[m].original.name => j = m)
  /\ [][(filesToAdd # << >> /\ filesToAdd' = << >>) =>
          \A name \in EntryNames(filesToAdd) :
            \A j \in 1..Len(files') :
              files'[j].original.name = name =>
                /\ files'[j].status = "pending"
                /\ files'[j].processed = NoBlob
       ]_vars

\* C29: an entry that is 'done' holds the result computed from its own
\* original file, whatever addFiles call commits while a file is being
\* processed
C29_DoneFromOwnOriginal ==
  \A j \in 1..Len(files) :
    files[j].status = "done" => files[j].processed = files[j].original.content

====
